---- MODULE Spec2Model ----
(***************************************************************************)
(* State-machine model of the GeminiRAG session object of                  *)
(* gemini_file_search.py: the session state (store reference, list of      *)
(* uploaded file handles), its operations, and the remote service as a     *)
(* source of nondeterministic outcomes (success, failure, done flag,       *)
(* response contents).                                                     *)
(***************************************************************************)
EXTENDS Integers, Sequences, FiniteSets, TLC

\* ------------------------------------------------------------------ bounds
MaxStores == 2      \* store handles the remote service hands out
MaxFiles == 2       \* file handles the remote service hands out
MaxBatch == 2       \* longest path list given to upload_multiple_files
MaxPolls == 2       \* operations.get calls kept in the call log
MaxChunks == 3      \* grounding chunks in a query response

\* ------------------------------------------------------------------ values
None == 0
NoFile == [name |-> 0, display_name |-> "None"]

\* The local filesystem: two paths that exist, one that does not.
Paths == {"a.txt", "b.pdf", "missing.md"}
PathExists(path) == path \in {"a.txt", "b.pdf"}

Questions == {"q1"}

\* Titles are strings; a string is modelled as the sequence of its code points
\* so that Python's string order can be computed:  "a" < "ab" < "b".
Titles == {<<1>>, <<1, 2>>, <<2>>}

\* A grounding chunk is an object; a record's domain is its attribute set.
ChunkKinds ==
    {[web |-> "w"], [retrieved_context |-> [uri |-> "u"]]}
        \cup {[retrieved_context |-> [title |-> t]] : t \in Titles}

SeqsUpTo(S, n) == UNION {[1..k -> S] : k \in 0..n}

\* What generate_content may return: no candidates, a first candidate without
\* grounding metadata, or a first candidate with a sequence of grounding chunks.
Responses ==
    {[candidates |-> 0, grounding |-> FALSE, chunks |-> <<>>],
     [candidates |-> 1, grounding |-> FALSE, chunks |-> <<>>]}
        \cup {[candidates |-> 1, grounding |-> TRUE, chunks |-> c] :
                c \in SeqsUpTo(ChunkKinds, MaxChunks)}

\* The responses with at most one grounding chunk: one of each shape that
\* query tells apart.
BriefResponses == {r \in Responses : Len(r.chunks) <= 1}

ErrNoStore == "ValueError: No file search store created. Call create_store() first."
ErrNoFiles == "ValueError: No files uploaded. Call upload_file() first."
ErrNotFound == "FileNotFoundError"
ErrRemote == "RemoteError"

VARIABLES
    file_search_store,  \* self.file_search_store: None or a store handle
    uploaded_files,     \* self.uploaded_files: sequence of file handles
    remote_stores,      \* the stores that exist at the remote service
    next_store,         \* next store handle the service hands out
    next_file,          \* next file handle the service hands out
    pc,                 \* position of the running call ("idle": none)
    cur,                \* locals of upload_file: file_path, uploaded_file, operation
    batch,              \* locals of upload_multiple_files: file_paths, index, results
    di,                 \* index of delete_files' loop over uploaded_files
    calls,              \* remote calls made by the current (or last) call
    ret,                \* how the last call ended: returned value or raised error
    ever_uploaded,      \* history: some upload_file call has returned a handle
    imported_into,      \* history, kept under SpecStores: the stores a file was
                        \*   imported into (import seen done)
    completed,          \* history: handles of the upload_file calls that went through
                        \*   raw upload and import since the last delete_files
    main                \* main(): its position, environment and locals

vars == <<file_search_store, uploaded_files, remote_stores, next_store, next_file,
          pc, cur, batch, di, calls, ret, ever_uploaded, imported_into, completed,
          main>>

session == <<file_search_store, uploaded_files>>
remote == <<remote_stores, next_store, next_file>>
history == <<ever_uploaded, imported_into, completed>>

NoCur == [file_path |-> "", uploaded_file |-> NoFile, done |-> FALSE]
\* attempted and files_before are history: the paths upload_file was entered
\* with, and the length of the file list when the batch began.
NoBatch == [active |-> FALSE, file_paths |-> <<>>, i |-> 1, results |-> <<>>,
            attempted |-> <<>>, files_before |-> 0]

\* main() is not running: the session is driven by any caller.
NoMain == [pc |-> "none", env |-> "", api_key |-> "", client |-> FALSE,
           docs |-> "", files |-> <<>>, event |-> "", raw |-> <<>>,
           question |-> <<>>]

Running(op) == [op |-> op, kind |-> "running", exc |-> "", val |-> NoFile]
Returned(op, val) == [op |-> op, kind |-> "return", exc |-> "", val |-> val]
Raised(op, exc) == [op |-> op, kind |-> "raise", exc |-> exc, val |-> NoFile]

\* A remote call as the service sees it: which endpoint, whether it succeeded,
\* and the store / file handle it was addressed to or returned (0: none).
Call(api, ok, store, file) == [api |-> api, ok |-> ok, store |-> store, file |-> file]

HasAttr(obj, attr) == attr \in DOMAIN obj

\* ---------------------------------------------------------------- __init__
Init ==
    /\ file_search_store = None
    /\ uploaded_files = <<>>
    /\ remote_stores = {}
    /\ next_store = 1
    /\ next_file = 1
    /\ pc = "idle"
    /\ cur = NoCur
    /\ batch = NoBatch
    /\ di = 1
    /\ calls = <<>>
    /\ ret = Returned("__init__", NoFile)
    /\ ever_uploaded = FALSE
    /\ imported_into = {}
    /\ completed = <<>>
    /\ main = NoMain

\* ------------------------------------------------------------ create_store
\* file_search_stores.create either raises, and the assignment never happens,
\* or returns a fresh store handle.
create_store ==
    /\ pc = "idle"
    /\ \/ /\ next_store <= MaxStores
          /\ file_search_store' = next_store
          /\ remote_stores' = remote_stores \cup {next_store}
          /\ next_store' = next_store + 1
          /\ calls' = <<Call("file_search_stores.create", TRUE, next_store, 0)>>
          /\ ret' = Returned("create_store", next_store)
       \/ /\ calls' = <<Call("file_search_stores.create", FALSE, 0, 0)>>
          /\ ret' = Raised("create_store", ErrRemote)
          /\ UNCHANGED <<file_search_store, remote_stores, next_store>>
    /\ UNCHANGED <<uploaded_files, next_file, pc, cur, batch, di, history>>

\* ------------------------------------------------------------- upload_file
\* Mutant: the local existence check is missing.
UploadPrecondition_NoExistsCheck(path) ==
    IF file_search_store = None THEN ErrNoStore ELSE ""

\* The two local checks at the head of upload_file, in the code's order:
\* the error raised, or "" when both pass.
UploadPrecondition(path) ==
    IF file_search_store = None THEN ErrNoStore
    ELSE IF ~PathExists(path) THEN ErrNotFound
    ELSE ""

\* Mutant: a failed upload is dropped from the results instead of recorded.
BatchRecord_DropFailed(b, kind, val) ==
    IF kind = "return"
    THEN [b EXCEPT !.results = Append(@, <<b.file_paths[b.i], val>>), !.i = @ + 1]
    ELSE [b EXCEPT !.i = @ + 1]

\* upload_file ends (kind "return" or "raise").  Called directly, the caller
\* sees the value or the exception.  Called from upload_multiple_files, the
\* try/except of the loop body records (file_path, result) or (file_path, None)
\* and the loop goes on with the next path.
BatchRecord(b, kind, val) ==
    [b EXCEPT !.results = Append(@, <<b.file_paths[b.i],
                                      IF kind = "return" THEN val ELSE NoFile>>),
              !.i = @ + 1]

UploadFileExit(b, path, kind, exc, val) ==
    /\ cur' = NoCur
    /\ IF b.active
       THEN /\ batch' = BatchRecord(b, kind, val)
            /\ pc' = "batch_loop"
            /\ UNCHANGED ret
       ELSE /\ ret' = [op |-> "upload_file", kind |-> kind, exc |-> exc, val |-> val,
                       file_path |-> path]
            /\ pc' = "idle"
            /\ batch' = b

\* Entry of upload_file(path): the precondition checks; no remote call yet.
UploadFileEnter(b, path) ==
    /\ calls' = <<>>
    /\ LET e == UploadPrecondition(path) IN
       IF e # ""
       THEN UploadFileExit(b, path, "raise", e, NoFile)
       ELSE /\ cur' = [NoCur EXCEPT !.file_path = path]
            /\ pc' = "files_upload"
            /\ batch' = b
            /\ IF b.active THEN UNCHANGED ret
               ELSE ret' = Running("upload_file") @@ [file_path |-> path]
    /\ UNCHANGED <<session, remote, di, history>>

upload_file ==
    /\ pc = "idle"
    /\ \E path \in Paths : UploadFileEnter(NoBatch, path)

\* self.client.files.upload(...): returns a fresh file handle, or raises.
files_upload ==
    /\ pc = "files_upload"
    /\ \/ /\ next_file <= MaxFiles
          /\ cur' = [cur EXCEPT !.uploaded_file =
                        [name |-> next_file, display_name |-> cur.file_path]]
          /\ next_file' = next_file + 1
          /\ calls' = Append(calls, Call("files.upload", TRUE, 0, next_file))
          /\ pc' = "import_file"
          /\ UNCHANGED <<batch, ret>>
       \/ /\ calls' = Append(calls, Call("files.upload", FALSE, 0, 0))
          /\ UploadFileExit(batch, cur.file_path, "raise", ErrRemote, NoFile)
          /\ UNCHANGED next_file
    /\ UNCHANGED <<session, remote_stores, next_store, di, history>>

\* Mutant: the import goes to the first store the session created.
ImportTarget_Stale == IF file_search_store = None THEN None ELSE 1

\* The store handle import_file is addressed to.
ImportTarget == file_search_store

\* self.client.file_search_stores.import_file(...): returns an operation whose
\* done flag may already be set, or raises.
import_file ==
    /\ pc = "import_file"
    /\ \/ /\ \E d \in BOOLEAN : cur' = [cur EXCEPT !.done = d]
          /\ calls' = Append(calls, Call("import_file", TRUE, ImportTarget,
                                         cur.uploaded_file.name))
          /\ pc' = "poll"
          /\ UNCHANGED <<batch, ret>>
       \/ /\ calls' = Append(calls, Call("import_file", FALSE, ImportTarget,
                                         cur.uploaded_file.name))
          /\ UploadFileExit(batch, cur.file_path, "raise", ErrRemote, NoFile)
    /\ UNCHANGED <<session, remote, di, history>>

NumPolls == Cardinality({k \in DOMAIN calls : calls[k].api = "operations.get"})

\* The log keeps the first MaxPolls polls; later ones leave it as it is.
LogPoll(ok) ==
    IF NumPolls < MaxPolls
    THEN Append(calls, Call("operations.get", ok, 0, cur.uploaded_file.name))
    ELSE calls

\* Mutant: the import is taken as complete without looking at the flag.
ImportComplete_Ignore == TRUE

\* Mutant: the loop gives up waiting after MaxPolls polls and goes on.
ImportComplete_OrPolledOut == cur.done \/ NumPolls >= MaxPolls

\* The loop condition: the operation object at hand carries the done flag.
ImportComplete == cur.done

\* Mutant: the new handle is put at the front of the list.
Registered_Prepend == <<cur.uploaded_file>> \o uploaded_files

\* The file list once the import is seen complete.
Registered == Append(uploaded_files, cur.uploaded_file)

\* while not operation.done: sleep; operation = operations.get(operation)
\* and, once done is seen, the append and the return.  (imported_into is left
\* to the specification: kept as it is, or recorded by poll_recorded.)
poll ==
    /\ pc = "poll"
    /\ IF ImportComplete
       THEN /\ uploaded_files' = Registered
            /\ ever_uploaded' = TRUE
            /\ completed' = Append(completed, [name |-> calls[1].file,
                                                display_name |-> cur.file_path])
            /\ UploadFileExit(batch, cur.file_path, "return", "", cur.uploaded_file)
            /\ UNCHANGED <<file_search_store, calls>>
       ELSE /\ \/ /\ \E d \in BOOLEAN : cur' = [cur EXCEPT !.done = d]
                  /\ calls' = LogPoll(TRUE)
                  /\ UNCHANGED <<pc, batch, ret>>
               \/ /\ calls' = LogPoll(FALSE)
                  /\ UploadFileExit(batch, cur.file_path, "raise", ErrRemote, NoFile)
            /\ UNCHANGED <<session, ever_uploaded, completed>>
    /\ UNCHANGED <<remote, di>>

\* --------------------------------------------------- upload_multiple_files
upload_multiple_files ==
    /\ pc = "idle"
    /\ \E fps \in SeqsUpTo(Paths, MaxBatch) :
          batch' = [NoBatch EXCEPT !.active = TRUE, !.file_paths = fps,
                                   !.files_before = Len(uploaded_files)]
    /\ pc' = "batch_loop"
    /\ calls' = <<>>
    /\ ret' = Running("upload_multiple_files")
    /\ UNCHANGED <<session, remote, cur, di, history>>

\* for file_path in file_paths: try upload_file(file_path) ...; return results
batch_loop ==
    /\ pc = "batch_loop"
    /\ IF batch.i <= Len(batch.file_paths)
       THEN UploadFileEnter([batch EXCEPT !.attempted =
                                Append(@, batch.file_paths[batch.i])],
                            batch.file_paths[batch.i])
       ELSE /\ ret' = [op |-> "upload_multiple_files", kind |-> "return", exc |-> "",
                       val |-> batch.results, file_paths |-> batch.file_paths,
                       attempted |-> batch.attempted,
                       files_before |-> batch.files_before]
            /\ batch' = NoBatch
            /\ pc' = "idle"
            /\ UNCHANGED <<session, remote, cur, di, calls, history>>

\* ------------------------------------------------------------------- query
\* Mutant: the store check is missing.
QueryPrecondition_NoStoreCheck ==
    IF uploaded_files = <<>> THEN ErrNoFiles ELSE ""

\* Mutant: the file-list check is missing.
QueryPrecondition_NoFilesCheck ==
    IF file_search_store = None THEN ErrNoStore ELSE ""

\* The two local checks at the head of query: the error raised, or "".
QueryPrecondition ==
    IF file_search_store = None THEN ErrNoStore
    ELSE IF uploaded_files = <<>> THEN ErrNoFiles
    ELSE ""

\* Mutant: the generation call names the first store the session created.
QueryTarget_Stale == IF file_search_store = None THEN None ELSE 1

\* The store named in the FileSearch tool of the generation call.
QueryTarget == file_search_store

\* Python's order on strings, on sequences of code points.
StrLess(s, t) ==
    \E k \in 0..(IF Len(s) < Len(t) THEN Len(s) ELSE Len(t)) :
        /\ \A j \in 1..k : s[j] = t[j]
        /\ \/ k = Len(s) /\ k < Len(t)
           \/ k < Len(s) /\ k < Len(t) /\ s[k + 1] < t[k + 1]

\* sources = set(); for chunk in chunks: if hasattr(...) and hasattr(...): add
RECURSIVE CollectSources(_, _)
CollectSources(chunks, sources) ==
    IF chunks = <<>> THEN sources
    ELSE LET chunk == Head(chunks) IN
         CollectSources(Tail(chunks),
            IF HasAttr(chunk, "retrieved_context")
               /\ HasAttr(chunk.retrieved_context, "title")
            THEN sources \cup {chunk.retrieved_context.title}
            ELSE sources)

\* sorted(sources): the elements in ascending order.
RECURSIVE Sorted(_)
Sorted(S) ==
    IF S = {} THEN <<>>
    ELSE LET m == CHOOSE x \in S : \A y \in S : x = y \/ StrLess(x, y)
         IN <<m>> \o Sorted(S \ {m})

\* Mutant: the titles are kept in a list, in chunk order, and never sorted.
RECURSIVE DisplayedSources_ChunkOrder(_)
DisplayedSources_ChunkOrder(chunks) ==
    IF chunks = <<>> THEN <<>>
    ELSE LET chunk == Head(chunks) IN
         (IF HasAttr(chunk, "retrieved_context")
             /\ HasAttr(chunk.retrieved_context, "title")
          THEN <<chunk.retrieved_context.title>> ELSE <<>>)
            \o DisplayedSources_ChunkOrder(Tail(chunks))

\* The numbered source list query prints for the grounding chunks (empty:
\* no "Sources:" block is printed).
DisplayedSources(chunks) == Sorted(CollectSources(chunks, {}))

\* What query prints after the answer.
Display(response) ==
    IF response.candidates > 0
    THEN IF ~response.grounding \/ response.chunks = <<>>
         THEN [msg |-> "No grounding sources found", sources |-> <<>>]
         ELSE LET shown == DisplayedSources(response.chunks) IN
              [msg |-> IF shown # <<>> THEN "Sources:" ELSE "", sources |-> shown]
    ELSE [msg |-> "No candidate responses found", sources |-> <<>>]

QueryCall(responses) ==
    /\ pc = "idle"
    /\ \E question \in Questions :
        LET e == QueryPrecondition IN
        IF e # ""
        THEN /\ calls' = <<>>
             /\ ret' = Raised("query", e) @@ [question |-> question]
        ELSE \/ /\ calls' = <<Call("models.generate_content", FALSE, QueryTarget, 0)>>
                /\ ret' = Raised("query", ErrRemote) @@ [question |-> question]
             \/ /\ calls' = <<Call("models.generate_content", TRUE, QueryTarget, 0)>>
                /\ \E response \in responses :
                      ret' = Returned("query", response) @@
                                [question |-> question, printed |-> Display(response)]
    /\ UNCHANGED <<session, remote, pc, cur, batch, di, history>>

query == QueryCall(BriefResponses)

\* ------------------------------------------------------------ delete_files
delete_files ==
    /\ pc = "idle"
    /\ pc' = "delete_loop"
    /\ di' = 1
    /\ calls' = <<>>
    /\ ret' = Running("delete_files")
    /\ UNCHANGED <<session, remote, cur, batch, history>>

\* Mutant: the list is reset only when every remote delete succeeded.
Cleared_OnlyIfAllDeleted ==
    IF \A k \in DOMAIN calls : calls[k].ok THEN <<>> ELSE uploaded_files

\* Mutant: the entries whose remote delete failed stay in the list.
Cleared_KeepFailed ==
    LET RECURSIVE Kept(_)
        Kept(k) == IF k > Len(uploaded_files) THEN <<>>
                   ELSE (IF calls[k].ok THEN <<>> ELSE <<uploaded_files[k]>>)
                            \o Kept(k + 1)
    IN Kept(1)

\* self.uploaded_files = [] after the loop.
Cleared == <<>>

\* for file in self.uploaded_files: try files.delete(name=file.name) except ...
\* and, after the last entry, the reset of the list.
delete_loop ==
    /\ pc = "delete_loop"
    /\ IF di <= Len(uploaded_files)
       THEN /\ \E ok \in BOOLEAN :
                  calls' = Append(calls, Call("files.delete", ok, 0,
                                              uploaded_files[di].name))
            /\ di' = di + 1
            /\ UNCHANGED <<uploaded_files, pc, ret, history>>
       ELSE /\ uploaded_files' = Cleared
            /\ completed' = <<>>
            /\ ret' = Returned("delete_files", NoFile)
            /\ pc' = "idle"
            /\ di' = 1
            /\ UNCHANGED <<calls, ever_uploaded, imported_into>>
    /\ UNCHANGED <<file_search_store, remote, cur, batch>>

\* ------------------------------------------------------------ delete_store
\* Mutant: the reference is not cleared after the remote delete.
AfterStoreDelete_Keep(ok) == file_search_store

\* Mutant: the reference is cleared whether or not the remote delete succeeded.
AfterStoreDelete_Always(ok) == None

\* The store reference after file_search_stores.delete ended (ok: no exception).
AfterStoreDelete(ok) == IF ok THEN None ELSE file_search_store

delete_store ==
    /\ pc = "idle"
    /\ IF file_search_store # None
       THEN \E ok \in BOOLEAN :
              /\ calls' = <<Call("file_search_stores.delete", ok, file_search_store, 0)>>
              /\ remote_stores' = IF ok THEN remote_stores \ {file_search_store}
                                  ELSE remote_stores
              /\ file_search_store' = AfterStoreDelete(ok)
       ELSE /\ calls' = <<>>
            /\ UNCHANGED <<file_search_store, remote_stores>>
    /\ ret' = Returned("delete_store", NoFile)
    /\ UNCHANGED <<uploaded_files, next_store, next_file, pc, cur, batch, di,
                   history>>

\* ------------------------------------------------ list_files, list_stores
\* Mutant: no try/except around the listing call.
ListOutcome_Propagate(op, ok, listing) ==
    IF ok THEN Returned(op, listing) ELSE Raised(op, ErrRemote)

\* try: return list(<listing call>)  except Exception: print; return []
ListOutcome(op, ok, listing) ==
    IF ok THEN Returned(op, listing) ELSE Returned(op, <<>>)

\* What files.list may answer: the service holds some of the files handed out
\* so far (others may have been deleted remotely).
FileListings == {[k \in 1..n |-> k] : n \in 0..(next_file - 1)}

\* What file_search_stores.list answers: the stores that exist, in handle order.
RECURSIVE Ascending(_)
Ascending(S) ==
    IF S = {} THEN <<>>
    ELSE LET m == CHOOSE x \in S : \A y \in S : x <= y
         IN <<m>> \o Ascending(S \ {m})

list_files ==
    /\ pc = "idle"
    /\ \E ok \in BOOLEAN : \E listing \in FileListings :
          /\ calls' = <<Call("files.list", ok, 0, 0)>>
          /\ ret' = ListOutcome("list_files", ok, listing)
    /\ UNCHANGED <<session, remote, pc, cur, batch, di, history>>

list_stores ==
    /\ pc = "idle"
    /\ \E ok \in BOOLEAN :
          /\ calls' = <<Call("file_search_stores.list", ok, 0, 0)>>
          /\ ret' = ListOutcome("list_stores", ok, Ascending(remote_stores))
    /\ UNCHANGED <<session, remote, pc, cur, batch, di, history>>

\* The session driven by any caller, one call at a time; main() is not running.
Next ==
    \/ create_store /\ UNCHANGED main
    \/ upload_file /\ UNCHANGED main
    \/ files_upload /\ UNCHANGED main
    \/ import_file /\ UNCHANGED main
    \/ poll /\ UNCHANGED <<main, imported_into>>
    \/ upload_multiple_files /\ UNCHANGED main
    \/ batch_loop /\ UNCHANGED main
    \/ query /\ UNCHANGED main
    \/ delete_files /\ UNCHANGED main
    \/ delete_loop /\ UNCHANGED main
    \/ delete_store /\ UNCHANGED main
    \/ list_files /\ UNCHANGED main
    \/ list_stores /\ UNCHANGED main

Spec == Init /\ [][Next]_vars

\* --------------------------------------------- grounding-source extraction
\* query's extraction of sources is a function of the response alone.  This
\* specification starts in the session state reached by create_store and one
\* completed upload_file("a.txt"), and lets query receive every response of
\* up to MaxChunks grounding chunks.
InitSources ==
    /\ file_search_store = 1
    /\ uploaded_files = <<[name |-> 1, display_name |-> "a.txt"]>>
    /\ remote_stores = {1}
    /\ next_store = 2
    /\ next_file = 2
    /\ pc = "idle"
    /\ cur = NoCur
    /\ batch = NoBatch
    /\ di = 1
    /\ calls = <<Call("files.upload", TRUE, 0, 1), Call("import_file", TRUE, 1, 1)>>
    /\ ret = [op |-> "upload_file", kind |-> "return", exc |-> "",
              val |-> [name |-> 1, display_name |-> "a.txt"], file_path |-> "a.txt"]
    /\ ever_uploaded = TRUE
    /\ imported_into = {1}
    /\ completed = <<[name |-> 1, display_name |-> "a.txt"]>>
    /\ main = NoMain

query_grounded == QueryCall(Responses)

NextSources == query_grounded /\ UNCHANGED main

SpecSources == InitSources /\ [][NextSources]_vars

\* InitSources is a state of Spec (checked: TLC reaches it).
InitSourcesReached == InitSources
\* ------------------------------------------------- which store holds files
\* The same session with the history of imports kept: when upload_file sees the
\* import done, the store named in its import_file call has received a file.
ImportedInto ==
    IF ImportComplete THEN imported_into \cup {calls[2].store} ELSE imported_into

poll_recorded == poll /\ imported_into' = ImportedInto

NextStores ==
    \/ create_store /\ UNCHANGED main
    \/ upload_file /\ UNCHANGED main
    \/ files_upload /\ UNCHANGED main
    \/ import_file /\ UNCHANGED main
    \/ poll_recorded /\ UNCHANGED main
    \/ query /\ UNCHANGED main
    \/ delete_files /\ UNCHANGED main
    \/ delete_loop /\ UNCHANGED main
    \/ delete_store /\ UNCHANGED main

SpecStores == Init /\ [][NextStores]_vars

\* ------------------------------------------------------------ the poll loop
\* upload_file alone, in a session that has created its store.  A not-done
\* answer to a poll whose log entry is already kept leaves the state as it
\* was, so a run that polls forever is a run that stutters in the loop.  Two
\* fairness conditions: the thread runs on once the flag is at hand, and the
\* remote operation eventually completes (a poll that can see the flag set
\* eventually does).
InitLive ==
    /\ file_search_store = 1
    /\ uploaded_files = <<>>
    /\ remote_stores = {1}
    /\ next_store = 2
    /\ next_file = 1
    /\ pc = "idle"
    /\ cur = NoCur
    /\ batch = NoBatch
    /\ di = 1
    /\ calls = <<Call("file_search_stores.create", TRUE, 1, 0)>>
    /\ ret = Returned("create_store", 1)
    /\ ever_uploaded = FALSE
    /\ imported_into = {}
    /\ completed = <<>>
    /\ main = NoMain

PollRegisters == poll /\ cur.done /\ UNCHANGED <<main, imported_into>>

PollSeesDone == poll /\ ~cur.done /\ cur'.done /\ UNCHANGED <<main, imported_into>>

NextLive ==
    \/ upload_file /\ UNCHANGED main
    \/ files_upload /\ UNCHANGED main
    \/ import_file /\ UNCHANGED main
    \/ poll /\ UNCHANGED <<main, imported_into>>

SpecLive ==
    InitLive /\ [][NextLive]_vars /\ WF_vars(PollRegisters) /\ WF_vars(PollSeesDone)

\* -------------------------------------------------------------------- main
\* main(): construct the session from the environment, create the store,
\* upload what the documents directory holds, then read questions.
\* main.pc is main's position: "start", "create_store", "check_docs",
\* "uploading", "input" (at input()), "query" (at rag.query), and the ends
\* "no_docs" (the early return), "goodbye" (after the loop) and "aborted" (an
\* exception left main).

\* os.getenv of a variable that is not set, and an argument left out: None.
Unset == "<None>"
EnvValues == {Unset, "", "k"}
ErrNoKey == "ValueError: GEMINI_API_KEY not found in environment variables"

\* Mutant: only None counts as missing.
Truthy_NotNone(s) == s # Unset

\* Python truth of an optional string.
Truthy(s) == s \notin {Unset, ""}

\* api_key or os.getenv('GEMINI_API_KEY')
Credential(api_key, env) == IF Truthy(api_key) THEN api_key ELSE env

\* What the path "documents" is when main looks at it.
DocKinds == {"missing", "file", "dir"}
Exists(kind) == kind # "missing"
IsDir(kind) == kind = "dir"

\* Mutant: the is_dir() test is missing.
DocsFound_ExistsOnly(kind) == Exists(kind)

\* docs_dir.exists() and docs_dir.is_dir()
DocsFound(kind) == Exists(kind) /\ IsDir(kind)

\* The supported entries a documents directory can hold (an entry may be gone,
\* or dangling, by the time upload_file looks at it); other entries are not
\* matched by any of the three patterns.  A path that is no directory holds
\* nothing.
DirContents(kind) ==
    IF IsDir(kind) THEN {d \in SUBSET Paths : Cardinality(d) <= MaxBatch} ELSE {{}}

\* list(glob("*.txt")) + list(glob("*.pdf")) + list(glob("*.md"))
Glob(dir) ==
    (IF "a.txt" \in dir THEN <<"a.txt">> ELSE <<>>)
      \o (IF "b.pdf" \in dir THEN <<"b.pdf">> ELSE <<>>)
      \o (IF "missing.md" \in dir THEN <<"missing.md">> ELSE <<>>)

\* Lines typed at the prompt, as sequences of characters.
RawInputs ==
    { <<>>, <<" ", " ">>,
      <<"q">>, <<"Q", " ">>,
      <<"q", "u", "i", "t">>, <<" ", "Q", "u", "I", "t", " ">>,
      <<"E", "X", "I", "T">>,
      <<"q", "u">>, <<"q", " ", "q">>, <<" ", "h", "i">> }

Whitespace == {" ", "\t"}

LStrip(s) ==
    LET first == CHOOSE k \in 1..(Len(s) + 1) :
                    /\ \A j \in 1..(k - 1) : s[j] \in Whitespace
                    /\ k <= Len(s) => s[k] \notin Whitespace
    IN  SubSeq(s, first, Len(s))

RStrip(s) ==
    LET last == CHOOSE k \in 0..Len(s) :
                    /\ \A j \in (k + 1)..Len(s) : s[j] \in Whitespace
                    /\ k >= 1 => s[k] \notin Whitespace
    IN  SubSeq(s, 1, last)

\* str.strip()
Strip(s) == RStrip(LStrip(s))

LowerChar(c) ==
    CASE c = "Q" -> "q" [] c = "U" -> "u" [] c = "I" -> "i" [] c = "T" -> "t"
      [] c = "E" -> "e" [] c = "X" -> "x" [] c = "H" -> "h"
      [] OTHER -> c

\* Mutant: the comparison is case-sensitive.
Lower_AsIs(s) == s

\* str.lower()
Lower(s) == [k \in DOMAIN s |-> LowerChar(s[k])]

\* ['quit', 'exit', 'q']
Sentinels == {<<"q", "u", "i", "t">>, <<"e", "x", "i", "t">>, <<"q">>}

InitMain ==
    /\ file_search_store = None
    /\ uploaded_files = <<>>
    /\ remote_stores = {}
    /\ next_store = 1
    /\ next_file = 1
    /\ pc = "idle"
    /\ cur = NoCur
    /\ batch = NoBatch
    /\ di = 1
    /\ calls = <<>>
    /\ ret = Running("main")
    /\ ever_uploaded = FALSE
    /\ imported_into = {}
    /\ completed = <<>>
    /\ \E env \in EnvValues, docs \in DocKinds :
          main = [NoMain EXCEPT !.pc = "start", !.env = env, !.docs = docs]

\* rag = GeminiRAG(): without a credential __init__ raises before the client
\* and the session state exist, and the exception leaves main.
main_construct ==
    /\ main.pc = "start"
    /\ LET key == Credential(Unset, main.env) IN
       IF ~Truthy(key)
       THEN /\ main' = [main EXCEPT !.pc = "aborted"]
            /\ ret' = Raised("__init__", ErrNoKey)
            /\ UNCHANGED session
       ELSE /\ main' = [main EXCEPT !.pc = "create_store", !.api_key = key,
                                    !.client = TRUE]
            /\ ret' = Returned("__init__", NoFile)
            /\ uploaded_files' = <<>>
            /\ file_search_store' = None
    /\ UNCHANGED <<remote, pc, cur, batch, di, calls, history>>

\* rag.create_store("my-knowledge-base"): a remote failure leaves main.
main_create_store ==
    /\ main.pc = "create_store"
    /\ create_store
    /\ main' = [main EXCEPT !.pc = IF ret'.kind = "raise" THEN "aborted"
                                   ELSE "check_docs"]

\* The directory test and the glob: upload what was found, or go on to the
\* loop with nothing uploaded, or return.
main_check_docs ==
    /\ main.pc = "check_docs"
    /\ IF DocsFound(main.docs)
       THEN \E dir \in DirContents(main.docs) :
              LET files == Glob(dir) IN
              IF files # <<>>
              THEN /\ upload_multiple_files
                   /\ batch'.file_paths = files
                   /\ main' = [main EXCEPT !.pc = "uploading", !.files = files]
              ELSE /\ main' = [main EXCEPT !.pc = "input"]
                   /\ UNCHANGED <<session, remote, pc, cur, batch, di, calls, ret,
                                  history>>
       ELSE /\ main' = [main EXCEPT !.pc = "no_docs"]
            /\ UNCHANGED <<session, remote, pc, cur, batch, di, calls, ret, history>>

\* A step of rag.upload_multiple_files(...); when it returns, main goes on to
\* the loop.
MainUploading(step) ==
    /\ main.pc = "uploading"
    /\ step
    /\ main' = [main EXCEPT !.pc = IF pc' = "idle" THEN "input" ELSE @]

main_batch_loop == MainUploading(batch_loop)
main_files_upload == MainUploading(files_upload)
main_import_file == MainUploading(import_file)
main_poll == MainUploading(poll /\ UNCHANGED imported_into)

\* A keyboard interruption while uploading: upload_multiple_files catches
\* Exception only, and main has no handler outside the loop.
main_upload_interrupted ==
    /\ main.pc = "uploading"
    /\ main' = [main EXCEPT !.pc = "aborted", !.event = "interrupt"]
    /\ UNCHANGED <<session, remote, pc, cur, batch, di, calls, ret, history>>

\* question = input("Question: ").strip(), and the two tests on it.  input()
\* returns a line, or raises KeyboardInterrupt, or raises EOFError (an
\* Exception: caught, and the loop goes on).
main_input ==
    /\ main.pc = "input"
    /\ \/ main' = [main EXCEPT !.pc = "goodbye", !.event = "interrupt"]
       \/ main' = [main EXCEPT !.event = "eof"]
       \/ \E raw \in RawInputs :
            LET question == Strip(raw) IN
            main' = [main EXCEPT
                       !.event = "line", !.raw = raw, !.question = question,
                       !.pc = IF Lower(question) \in Sentinels THEN "goodbye"
                              ELSE IF question # <<>> THEN "query"
                              ELSE "input"]
    /\ UNCHANGED <<session, remote, pc, cur, batch, di, calls, ret, history>>

\* rag.query(question) inside the try: whatever it raises is caught and
\* printed; a keyboard interruption ends the loop.  The text of the question
\* is only handed on to the remote model.
main_query ==
    /\ main.pc = "query"
    /\ \/ /\ query
          /\ main' = [main EXCEPT !.pc = "input", !.event = "query"]
       \/ /\ main' = [main EXCEPT !.pc = "goodbye", !.event = "interrupt"]
          /\ UNCHANGED <<session, remote, pc, cur, batch, di, calls, ret, history>>

NextMain ==
    \/ main_construct
    \/ main_create_store
    \/ main_check_docs
    \/ main_batch_loop
    \/ main_files_upload
    \/ main_import_file
    \/ main_poll
    \/ main_upload_interrupted
    \/ main_input
    \/ main_query

SpecMain == InitMain /\ [][NextMain]_vars

\* ================================================================== claims
IsQueryStep == pc = "idle" /\ ret'.op = "query" /\ query
IsUploadFileStep == pc = "idle" /\ ret'.op = "upload_file" /\ upload_file

Range(seq) == {seq[k] : k \in DOMAIN seq}

\* C1: whenever no store is active, query raises the missing-store ValueError,
\* makes no remote call, and leaves the store reference and file list as they were.
C1_QueryWithoutStore ==
    [][(file_search_store = None /\ IsQueryStep)
         => /\ ret'.op = "query" /\ ret'.kind = "raise" /\ ret'.exc = ErrNoStore
            /\ calls' = <<>>
            /\ file_search_store' = file_search_store
            /\ uploaded_files' = uploaded_files]_vars

\* A query has just failed for want of a store, after a successful delete_store
\* left a non-empty file list behind.
C1_Witness ==
    /\ pc = "idle" /\ ret.op = "query" /\ ret.exc = ErrNoStore /\ calls = <<>>
    /\ file_search_store = None /\ uploaded_files # <<>> /\ next_store > 1

\* C2: with an active store and no upload_file call completed so far, query
\* raises the no-files ValueError and makes no remote call, whatever upload
\* attempts have failed before.
C2_QueryBeforeUpload ==
    [][(file_search_store # None /\ ~ever_uploaded /\ IsQueryStep)
         => /\ ret'.op = "query" /\ ret'.kind = "raise" /\ ret'.exc = ErrNoFiles
            /\ calls' = <<>>]_vars

\* A query has just failed for want of files although a raw upload had
\* succeeded remotely (the upload_file call failed later, in import or poll).
C2_Witness ==
    /\ pc = "idle" /\ ret.op = "query" /\ ret.exc = ErrNoFiles /\ calls = <<>>
    /\ file_search_store # None /\ ~ever_uploaded /\ next_file > 1

\* C3 as stated: upload_file on a path that does not exist fails with
\* FileNotFoundError and no remote call in every session state.
C3_Original ==
    (pc = "idle" /\ ret.op = "upload_file" /\ ~PathExists(ret.file_path))
        => (ret.kind = "raise" /\ ret.exc = ErrNotFound /\ calls = <<>>)

\* C3 amended: upload_file on a path that does not exist makes no remote call,
\* ends at once and leaves store reference and file list unchanged in every
\* session state; the error is FileNotFoundError when a store is active and the
\* missing-store ValueError when none is.
C3_MissingPath ==
    [][(IsUploadFileStep /\ ~PathExists(ret'.file_path))
         => /\ pc' = "idle" /\ ret'.op = "upload_file" /\ ret'.kind = "raise"
            /\ ret'.exc = (IF file_search_store = None THEN ErrNoStore ELSE ErrNotFound)
            /\ calls' = <<>>
            /\ next_file' = next_file
            /\ file_search_store' = file_search_store
            /\ uploaded_files' = uploaded_files]_vars

\* upload_file on the missing path has just failed with FileNotFoundError in a
\* session with a store and a non-empty file list.
C3_Witness ==
    /\ pc = "idle" /\ ret.op = "upload_file" /\ ret.file_path = "missing.md"
    /\ ret.exc = ErrNotFound /\ file_search_store # None /\ uploaded_files # <<>>

\* The handles of a result list, failures left out.
Handles(results) ==
    LET RECURSIVE H(_)
        H(r) == IF r = <<>> THEN <<>>
                ELSE IF Head(r)[2] = NoFile THEN H(Tail(r))
                ELSE <<Head(r)[2]>> \o H(Tail(r))
    IN H(results)

\* C4: upload_multiple_files enters upload_file once per path in input order,
\* and returns one pair per path in input order; the pairs with a handle are
\* exactly the uploads that registered a file (the handles, in order, are what
\* the batch appended to the file list, each for its own path), every other pair
\* carries None, and a path that cannot succeed (missing locally) carries None.
C4_BatchResults ==
    (pc = "idle" /\ ret.op = "upload_multiple_files")
        => /\ ret.kind = "return"
           /\ ret.attempted = ret.file_paths
           /\ Len(ret.val) = Len(ret.file_paths)
           /\ \A k \in DOMAIN ret.val :
                /\ ret.val[k][1] = ret.file_paths[k]
                /\ ret.val[k][2] # NoFile
                     => ret.val[k][2].display_name = ret.file_paths[k]
                /\ ~PathExists(ret.file_paths[k]) => ret.val[k][2] = NoFile
           /\ Handles(ret.val)
                = SubSeq(uploaded_files, ret.files_before + 1, Len(uploaded_files))

\* A batch of two paths whose first upload failed and whose second succeeded.
C4_Witness ==
    /\ pc = "idle" /\ ret.op = "upload_multiple_files"
    /\ Len(ret.file_paths) = 2
    /\ ret.val[1][2] = NoFile /\ ret.val[2][2] # NoFile

\* C5: delete_files issues one files.delete per entry of the file list, in
\* list order, whatever the earlier deletes answered; it ends by returning with
\* the list empty, and never touches the store reference.
C5_DeleteFiles ==
    /\ [](pc = "delete_loop"
            => /\ di \in 1..(Len(uploaded_files) + 1)
               /\ Len(calls) = di - 1
               /\ \A k \in DOMAIN calls :
                    calls[k].api = "files.delete" /\ calls[k].file = uploaded_files[k].name)
    /\ [][(pc = "delete_loop" /\ pc' # "delete_loop")
            => /\ pc' = "idle" /\ ret' = Returned("delete_files", NoFile)
               /\ Len(calls') = Len(uploaded_files)
               /\ uploaded_files' = <<>>]_vars
    /\ [][(pc = "delete_loop" \/ pc' = "delete_loop")
            => file_search_store' = file_search_store]_vars

\* delete_files has ended with an empty list after two remote deletes that
\* both failed.
C5_Witness ==
    /\ pc = "idle" /\ ret.op = "delete_files" /\ ret.kind = "return"
    /\ Len(calls) = 2 /\ \A k \in DOMAIN calls : ~calls[k].ok
    /\ uploaded_files = <<>>

Reorderings(seq) ==
    {[k \in DOMAIN seq |-> seq[f[k]]] : f \in {g \in [DOMAIN seq -> DOMAIN seq] :
                                                \A a, b \in DOMAIN seq : a # b => g[a] # g[b]}}

TitlesOf(chunks) ==
    {c.retrieved_context.title :
        c \in {d \in Range(chunks) : "retrieved_context" \in DOMAIN d
                                      /\ "title" \in DOMAIN d.retrieved_context}}

\* C6: for the grounding chunks of the first candidate, the displayed sources
\* are exactly the titles the chunks carry, each once, in ascending order; the
\* list is the same for every permutation of the chunks and when chunks repeat.
C6_Sources ==
    (pc = "idle" /\ ret.op = "query" /\ ret.kind = "return"
        /\ ret.val.candidates > 0 /\ ret.val.grounding)
        => LET shown == ret.printed.sources
               chunks == ret.val.chunks
           IN /\ Range(shown) = TitlesOf(chunks)
              /\ Len(shown) = Cardinality(TitlesOf(chunks))
              /\ \A a, b \in DOMAIN shown : a < b => StrLess(shown[a], shown[b])
              /\ \A p \in Reorderings(chunks) : DisplayedSources(p) = shown
              /\ DisplayedSources(chunks \o chunks) = shown

\* A response whose chunks repeat a title and arrive out of order:  "b", "a", "b".
C6_Witness ==
    /\ pc = "idle" /\ ret.op = "query" /\ ret.kind = "return"
    /\ ret.val.chunks = <<[retrieved_context |-> [title |-> <<2>>]],
                          [retrieved_context |-> [title |-> <<1>>]],
                          [retrieved_context |-> [title |-> <<2>>]]>>
    /\ ret.printed.sources = <<<<1>>, <<2>>>>

UploadCalls(store, handle) ==
    /\ Len(calls) >= 2
    /\ calls[1] = Call("files.upload", TRUE, 0, handle.name)
    /\ calls[2] = Call("import_file", TRUE, store, handle.name)
    /\ \A k \in 3..Len(calls) :
         calls[k].api = "operations.get" /\ calls[k].file = handle.name

\* C7: with a store and an existing path, upload_file calls files.upload, then
\* import_file for the handle files.upload returned and the current store, then
\* operations.get any number of times; the handle joins the file list only in
\* the step that sees the done flag on the operation at hand, it is returned in
\* that step, and no handle is in the list twice.
C7_UploadOrder ==
    /\ [](/\ pc = "files_upload" => calls = <<>>
          /\ pc = "import_file"
               => calls = <<Call("files.upload", TRUE, 0, cur.uploaded_file.name)>>
          /\ pc = "poll" => UploadCalls(file_search_store, cur.uploaded_file)
          /\ (pc = "idle" /\ ret.op = "upload_file" /\ ret.kind = "return")
               => /\ UploadCalls(file_search_store, ret.val)
                  /\ calls[Len(calls)].ok
                  /\ ret.val.display_name = ret.file_path
                  /\ uploaded_files # <<>>
                  /\ uploaded_files[Len(uploaded_files)] = ret.val
          /\ \A a, b \in DOMAIN uploaded_files :
                a # b => uploaded_files[a] # uploaded_files[b])
    /\ [][(uploaded_files' # uploaded_files /\ uploaded_files' # <<>>)
            => /\ pc = "poll" /\ cur.done
               /\ uploaded_files' = Append(uploaded_files, cur.uploaded_file)
               /\ pc' = "idle" => (ret'.kind = "return" /\ ret'.val = cur.uploaded_file)]_vars
    /\ [][(pc = "poll" /\ pc' # "poll" /\ ~cur.done)
            => uploaded_files' = uploaded_files]_vars

\* upload_file has returned a handle after two polls of the import operation.
C7_Witness ==
    /\ pc = "idle" /\ ret.op = "upload_file" /\ ret.kind = "return"
    /\ Len(calls) = 4 /\ calls[3].api = "operations.get" /\ calls[4].api = "operations.get"
    /\ uploaded_files[Len(uploaded_files)] = ret.val

\* C8 as stated: after delete_store on a session with an active store, the
\* remote store is released and the local reference is None.
C8_Original ==
    (pc = "idle" /\ ret.op = "delete_store" /\ calls # <<>>)
        => (file_search_store = None /\ calls[1].store \notin remote_stores)

\* C8 amended: after delete_store on a session with an active store, if the
\* remote delete call succeeded the remote store is released and the local
\* reference is None, so that the next query or upload_file fails with the
\* missing-store error and no remote call; if the remote delete call failed,
\* the store still exists and the reference is kept.
C8_StoreDeleted ==
    /\ []((pc = "idle" /\ ret.op = "delete_store" /\ calls # <<>>)
            => /\ calls[1].api = "file_search_stores.delete"
               /\ IF calls[1].ok
                  THEN file_search_store = None /\ calls[1].store \notin remote_stores
                  ELSE file_search_store = calls[1].store
                          /\ calls[1].store \in remote_stores)
    /\ [][(ret.op = "delete_store" /\ calls # <<>> /\ calls[1].ok
              /\ (IsQueryStep \/ IsUploadFileStep))
            => (ret'.kind = "raise" /\ ret'.exc = ErrNoStore /\ calls' = <<>>
                  /\ pc' = "idle")]_vars

\* delete_store has just released store 1 remotely and cleared the reference.
C8_Witness ==
    /\ pc = "idle" /\ ret.op = "delete_store"
    /\ calls = <<Call("file_search_stores.delete", TRUE, 1, 0)>>
    /\ file_search_store = None /\ 1 \notin remote_stores

\* The handle of the most recent successful create_store, unless a successful
\* delete_store followed it (handles are handed out in order, and only
\* delete_store removes a store).
LatestLiveStore ==
    IF next_store > 1 /\ (next_store - 1) \in remote_stores THEN next_store - 1 ELSE None

\* C9: the store reference is None or the handle of the most recent successful
\* create_store not followed by a successful delete_store, and every
\* import_file and generate_content call of the running or last call names
\* exactly that handle.
C9_OneStore ==
    /\ file_search_store = LatestLiveStore
    /\ \A k \in DOMAIN calls :
         calls[k].api \in {"import_file", "models.generate_content"}
            => (calls[k].store = file_search_store /\ calls[k].store # None)

\* An import addressed to the second store while the first still exists remotely.
C9_Witness ==
    /\ pc = "poll" /\ file_search_store = 2 /\ remote_stores = {1, 2}
    /\ calls[2].api = "import_file" /\ calls[2].store = 2

\* C10: a query that passes both checks makes exactly one generate_content
\* call, naming the current store; if that call answers, query returns the
\* response, also one without candidates or without grounding chunks, which is
\* reported by a message; no query changes the store reference or the file list.
C10_QueryCall ==
    /\ [][(file_search_store # None /\ uploaded_files # <<>> /\ IsQueryStep)
            => /\ Len(calls') = 1
               /\ calls'[1].api = "models.generate_content"
               /\ calls'[1].store = file_search_store
               /\ calls'[1].ok
                    => /\ ret'.kind = "return"
                       /\ ret'.val.candidates = 0
                            => ret'.printed.msg = "No candidate responses found"
                       /\ (ret'.val.candidates > 0
                             /\ (~ret'.val.grounding \/ ret'.val.chunks = <<>>))
                            => ret'.printed.msg = "No grounding sources found"]_vars
    /\ [][IsQueryStep => (file_search_store' = file_search_store
                            /\ uploaded_files' = uploaded_files)]_vars

\* A query against the second store has returned a response without candidates.
C10_Witness ==
    /\ pc = "idle" /\ ret.op = "query" /\ ret.kind = "return"
    /\ ret.val.candidates = 0
    /\ calls = <<Call("models.generate_content", TRUE, 2, 0)>>

IsListStep ==
    /\ pc = "idle"
    /\ ret'.op \in {"list_files", "list_stores"}
    /\ list_files \/ list_stores

\* C12: list_stores and list_files make one listing call; when it fails they
\* return an empty list instead of raising, when it answers they return the
\* listing; either way store reference and file list stay as they were.
C12_Listing ==
    [][IsListStep
         => /\ pc' = "idle"
            /\ ret'.op \in {"list_files", "list_stores"}
            /\ ret'.kind = "return"
            /\ Len(calls') = 1
            /\ calls'[1].api = (IF ret'.op = "list_files" THEN "files.list"
                                ELSE "file_search_stores.list")
            /\ ~calls'[1].ok => ret'.val = <<>>
            /\ (calls'[1].ok /\ ret'.op = "list_stores")
                 => Range(ret'.val) = remote_stores
            /\ file_search_store' = file_search_store
            /\ uploaded_files' = uploaded_files]_vars

\* list_stores has returned an empty list after a failed listing call although
\* stores exist remotely, in a session with a store and files.
C12_Witness ==
    /\ pc = "idle" /\ ret.op = "list_stores" /\ ret.kind = "return" /\ ret.val = <<>>
    /\ calls = <<Call("file_search_stores.list", FALSE, 0, 0)>>
    /\ remote_stores # {} /\ file_search_store # None /\ uploaded_files # <<>>

\* An upload_file call ends by raising: seen by its caller, or recorded as
\* (path, None) by the loop of upload_multiple_files.
UploadFileFails ==
    \/ ret'.op = "upload_file" /\ ret'.kind = "raise" /\ ret # ret'
    \/ /\ batch.active /\ Len(batch'.results) = Len(batch.results) + 1
       /\ batch'.results[Len(batch'.results)][2] = NoFile

\* C16: the file list is, in order of completion, the handles of the
\* upload_file calls whose raw upload and import both went through since the
\* last delete_files; an upload_file call that fails, at whatever point, leaves
\* file list and store reference as they were.
C16_FileList ==
    /\ [](uploaded_files = completed)
    /\ [][UploadFileFails
            => (uploaded_files' = uploaded_files
                  /\ file_search_store' = file_search_store)]_vars

\* upload_file has failed in import_file after its raw upload had succeeded,
\* in a session that already holds a file.
C16_Witness ==
    /\ pc = "idle" /\ ret.op = "upload_file" /\ ret.kind = "raise"
    /\ Len(calls) = 2 /\ calls[1].api = "files.upload" /\ calls[1].ok
    /\ calls[2].api = "import_file" /\ ~calls[2].ok
    /\ Len(uploaded_files) = 1 /\ uploaded_files = completed

IsDeleteStoreStep == pc = "idle" /\ ret'.op = "delete_store" /\ delete_store

\* C17: delete_store always returns; without a store it makes no remote call
\* and changes nothing; with a store it makes one delete call for it, clears
\* the reference if the call succeeded and keeps it if the call failed; the file
\* list is never touched.
C17_DeleteStore ==
    [][IsDeleteStoreStep
         => /\ pc' = "idle" /\ ret'.kind = "return"
            /\ uploaded_files' = uploaded_files
            /\ IF file_search_store = None
               THEN /\ calls' = <<>>
                    /\ file_search_store' = None
                    /\ remote_stores' = remote_stores
               ELSE /\ Len(calls') = 1
                    /\ calls'[1].api = "file_search_stores.delete"
                    /\ calls'[1].store = file_search_store
                    /\ file_search_store'
                         = (IF calls'[1].ok THEN None ELSE file_search_store)]_vars

\* delete_store has swallowed a failed remote delete: the reference is kept,
\* and the file list is still non-empty.
C17_Witness ==
    /\ pc = "idle" /\ ret.op = "delete_store" /\ ret.kind = "return"
    /\ Len(calls) = 1 /\ ~calls[1].ok
    /\ file_search_store = calls[1].store /\ file_search_store # None
    /\ uploaded_files # <<>>

\* C18: delete_files leaves the file list empty whatever the remote deletes
\* answered; an empty list stays empty until an upload_file call sees its
\* import done; and with a store and an empty list every query raises the
\* no-files error without a remote call.
C18_QueryAfterDeleteFiles ==
    /\ []((pc = "idle" /\ ret.op = "delete_files") => uploaded_files = <<>>)
    /\ [][(uploaded_files = <<>> /\ uploaded_files' # <<>>)
            => (pc = "poll" /\ cur.done /\ uploaded_files' = <<cur.uploaded_file>>)]_vars
    /\ [][(file_search_store # None /\ uploaded_files = <<>> /\ ever_uploaded
              /\ IsQueryStep)
            => (ret'.kind = "raise" /\ ret'.exc = ErrNoFiles /\ calls' = <<>>)]_vars

\* A query has failed for want of files in a session with a store whose file
\* list had been filled and then emptied by delete_files.
C18_Witness ==
    /\ pc = "idle" /\ ret.op = "query" /\ ret.exc = ErrNoFiles /\ calls = <<>>
    /\ file_search_store # None /\ ever_uploaded /\ uploaded_files = <<>>

\* C15: whenever query has made the generation call, the store named in that
\* call is one into which this session has imported a file.
C15_QueriedStoreHoldsFile ==
    (pc = "idle" /\ ret.op = "query" /\ calls # <<>>)
        => calls[1].store \in imported_into

\* C14 as stated: the poll loop ends if and only if the done flag is reported;
\* an operation that is not done is never left by returning or raising.
C14_Original ==
    [][(pc = "poll" /\ pc' # "poll") => cur.done]_vars

\* C14 amended: the poll loop has no cap.  It is left only when the operation
\* at hand carries the done flag, and upload_file then registers the file and
\* returns, or when a poll itself raises, and upload_file then raises without
\* registering the file.  While polls answer not-done, upload_file stays in the
\* loop, another poll is always possible, and nothing is returned or
\* registered.  If the remote operation eventually reports done, upload_file
\* eventually leaves the loop.
C14_PollLoop ==
    /\ [][(pc = "poll" /\ pc' # "poll")
            => /\ pc' = "idle" /\ ret'.op = "upload_file"
               /\ IF cur.done
                  THEN /\ ret'.kind = "return"
                       /\ uploaded_files' = Append(uploaded_files, cur.uploaded_file)
                       /\ calls' = calls
                  ELSE /\ ret'.kind = "raise" /\ ret'.exc = ErrRemote
                       /\ uploaded_files' = uploaded_files]_vars
    /\ [][(pc = "poll" /\ pc' = "poll")
            => (~cur.done /\ uploaded_files' = uploaded_files /\ ret' = ret)]_vars
    /\ []((pc = "poll" /\ ~cur.done)
            => ENABLED (poll /\ pc' = "poll" /\ ~cur'.done
                          /\ UNCHANGED <<main, imported_into>>))
    /\ (pc = "poll") ~> (pc # "poll")

\* upload_file is in the poll loop, the operation not done, after more polls
\* than the log keeps.
C14_Witness ==
    /\ pc = "poll" /\ ~cur.done /\ NumPolls = MaxPolls
    /\ ret.kind = "running"

\* C13: with no credential (no api_key argument, the environment variable
\* unset or empty) the construction fails with the initialization error before
\* the client and any session state exist, and no store, upload or query
\* operation runs: main is over before its first remote call.
C13_NoCredential ==
    (main.pc # "none" /\ main.env \in {Unset, ""})
        => /\ main.pc \in {"start", "aborted"}
           /\ ~main.client
           /\ main.api_key = ""
           /\ calls = <<>>
           /\ remote_stores = {} /\ next_store = 1 /\ next_file = 1
           /\ file_search_store = None /\ uploaded_files = <<>>
           /\ pc = "idle"
           /\ ret.op \in {"main", "__init__"}
           /\ main.pc = "aborted" => ret = Raised("__init__", ErrNoKey)

\* main was started with the variable set to the empty string and is over,
\* the initialization error raised.
C13_Witness ==
    /\ main.pc = "aborted" /\ main.env = ""
    /\ ret.op = "__init__" /\ ret.kind = "raise"

\* The lines of RawInputs that are a sentinel word once trimmed and put in
\* lower case, and those that are empty once trimmed.
SentinelLines ==
    { <<"q">>, <<"Q", " ">>, <<"q", "u", "i", "t">>,
      <<" ", "Q", "u", "I", "t", " ">>, <<"E", "X", "I", "T">> }
BlankLines == { <<>>, <<" ", " ">> }
InLoop == main.pc \in {"input", "query"}

\* C11: the interactive loop ends when the line read is, trimmed and without
\* regard to case, one of quit / exit / q, or on a keyboard interruption, and
\* in no other case: an empty line issues no query and the loop goes on, a
\* line that is neither is handed to query, and whatever query or input raises
\* (precondition errors, remote failures, end of input) is caught and the loop
\* reads the next question.
C11_Loop ==
    [][InLoop =>
        /\ main'.pc \in {"input", "query", "goodbye"}
        /\ (main'.pc = "goodbye")
              <=> \/ main'.event = "interrupt"
                  \/ /\ main.pc = "input" /\ main'.event = "line"
                     /\ main'.raw \in SentinelLines
        /\ (main.pc = "input" /\ main'.event = "line" /\ main'.raw \in BlankLines)
              => (main'.pc = "input" /\ calls' = calls /\ ret' = ret)
        /\ (main.pc = "input" /\ main'.event = "line"
              /\ main'.raw \notin (SentinelLines \cup BlankLines))
              => (main'.pc = "query" /\ calls' = calls /\ ret' = ret)
        /\ (main.pc = "input" /\ main'.event = "eof") => main'.pc = "input"
        /\ (main.pc = "query" /\ main'.event = "query")
              => (main'.pc = "input" /\ ret'.op = "query")
        /\ main.pc = "input" => (calls' = calls /\ ret' = ret)
        /\ session' = session]_vars

\* The loop has caught a remote failure of query, and then ended on a padded,
\* mixed-case "quit".
C11_Witness ==
    /\ main.pc = "goodbye" /\ main.event = "line"
    /\ main.raw = <<" ", "Q", "u", "I", "t", " ">>
    /\ ret.op = "query" /\ ret.kind = "raise" /\ ret.exc = ErrRemote

MainOver == main.pc \in {"aborted", "no_docs", "goodbye"}

\* C19 as stated: the interactive loop is entered if and only if the documents
\* directory exists, and with the directory missing main returns, the store
\* created: once a constructed session's main is over, it has been through the
\* loop exactly when the directory exists, and has otherwise taken the early
\* return.
C19_Original ==
    (main.client /\ MainOver)
        => IF main.docs = "dir" THEN main.pc = "goodbye"
           ELSE main.pc = "no_docs" /\ file_search_store # None

\* C19 amended: main creates the store before any upload, and a failure of
\* create_store ends main there, whatever the documents directory is.  Once
\* the store is created, main goes towards the loop if and only if
\* "documents" exists and is a directory: it uploads what the three patterns
\* match, every attempt is over when the first question is read (only a
\* keyboard interruption during the uploads ends main before the loop), and
\* with nothing in the file list every question handed to query ends in the
\* caught no-files error.  Otherwise main returns, the store created and
\* nothing uploaded, queried or deleted.
C19_MainOrder ==
    /\ [](main.pc \in {"start", "create_store"}
            => /\ next_file = 1 /\ uploaded_files = <<>>
               /\ pc = "idle" /\ ~batch.active
               /\ ret.op \in {"main", "__init__"})
    /\ [][main.pc = "create_store"
            => /\ ret'.op = "create_store"
               /\ main'.pc = "aborted" <=> ret'.kind = "raise"
               /\ main'.pc = "check_docs" <=> ret'.kind = "return"
               /\ main'.pc \in {"aborted", "check_docs"}]_vars
    /\ [](main.pc \in {"check_docs", "uploading", "input", "query", "goodbye",
                       "no_docs"}
            => /\ file_search_store # None
               /\ file_search_store \in remote_stores)
    /\ [][main.pc = "check_docs"
            => /\ main'.pc \in {"uploading", "input"} <=> main.docs = "dir"
               /\ main'.pc = "no_docs" <=> main.docs # "dir"
               /\ main'.pc = "uploading"
                    <=> (main.docs = "dir" /\ main'.files # <<>>)
               /\ main'.pc = "uploading"
                    => (batch'.active /\ batch'.file_paths = main'.files)]_vars
    /\ [][main.pc = "uploading"
            => \/ main'.pc = "uploading" /\ pc' # "idle"
               \/ /\ main'.pc = "input" /\ pc' = "idle"
                  /\ ret'.op = "upload_multiple_files"
                  /\ ret'.attempted = main.files
               \/ main'.pc = "aborted" /\ main'.event = "interrupt"]_vars
    /\ [](main.pc \in {"input", "query", "goodbye"}
            => /\ main.docs = "dir"
               /\ pc = "idle" /\ ~batch.active /\ cur = NoCur
               /\ Len(uploaded_files) <= Len(main.files))
    /\ [][(main.pc = "query" /\ uploaded_files = <<>> /\ main'.event = "query")
            => /\ ret' = Raised("query", ErrNoFiles) @@ [question |-> ret'.question]
               /\ calls' = <<>>
               /\ main'.pc = "input"]_vars
    /\ [](main.pc = "no_docs"
            => /\ main.docs # "dir"
               /\ ret = Returned("create_store", file_search_store)
               /\ calls = <<Call("file_search_stores.create", TRUE,
                                 file_search_store, 0)>>
               /\ uploaded_files = <<>> /\ next_file = 1
               /\ remote_stores = {file_search_store})

\* The directory exists, files were found, every upload failed, and a
\* question has ended in the caught no-files error.
C19_Witness ==
    /\ main.pc = "input" /\ main.event = "query"
    /\ main.docs = "dir" /\ main.files # <<>> /\ uploaded_files = <<>>
    /\ ret.op = "query" /\ ret.kind = "raise" /\ ret.exc = ErrNoFiles
====
